---------------------------- MODULE Spec2Model ----------------------------
(***************************************************************************)
(* A model of JiraApiService (src/src/services/jira-api.ts): the document  *)
(* extractors, the record and comment normalizers, the two aggregate       *)
(* fetchers and the story-points field discovery.                          *)
(*                                                                         *)
(* Strings the code inspects (document text, URLs, issue keys, field and   *)
(* issue-type names) are sequences of one-character strings, so that       *)
(* regular-expression matching, toLowerCase and includes are computed.     *)
(* Strings the code only passes through (summaries, ids) are TLA+ strings. *)
(* An optional JavaScript property that is absent is a record field that   *)
(* is absent.                                                              *)
(***************************************************************************)
EXTENDS Integers, Sequences, FiniteSets, TLC

(***************************************************************************)
(* Bounds of the model.                                                    *)
(***************************************************************************)
\* Nodes in a generated document forest.
MaxNodes == 3
\* Characters in a generated text leaf.
MaxTextLen == 4
\* Structured links of a generated raw record.
MaxLinks == 2
\* Records a search of getEpicChildren returns.
MaxChildren == 2
\* Entries of a generated metadata field list.
MaxFields == 2

(***************************************************************************)
(* Characters and string helpers.                                          *)
(***************************************************************************)
Upper ==
  {"A","B","C","D","E","F","G","H","I","J","K","L","M",
   "N","O","P","Q","R","S","T","U","V","W","X","Y","Z"}

Digit == {"0","1","2","3","4","5","6","7","8","9"}

\* F applied to the value of e. TLC evaluates a LET definition or an operator
\* argument anew at each use; a value bound by a quantifier is computed once.
Bind(e, F(_)) == CHOOSE r \in {F(x) : x \in {e}} : TRUE

\* String.prototype.toLowerCase on one character (ASCII letters).
LowerChar(c) ==
  CASE c = "A" -> "a" [] c = "B" -> "b" [] c = "C" -> "c" [] c = "D" -> "d"
    [] c = "E" -> "e" [] c = "F" -> "f" [] c = "G" -> "g" [] c = "H" -> "h"
    [] c = "I" -> "i" [] c = "J" -> "j" [] c = "K" -> "k" [] c = "L" -> "l"
    [] c = "M" -> "m" [] c = "N" -> "n" [] c = "O" -> "o" [] c = "P" -> "p"
    [] c = "Q" -> "q" [] c = "R" -> "r" [] c = "S" -> "s" [] c = "T" -> "t"
    [] c = "U" -> "u" [] c = "V" -> "v" [] c = "W" -> "w" [] c = "X" -> "x"
    [] c = "Y" -> "y" [] c = "Z" -> "z" [] OTHER -> c

\* String.prototype.toLowerCase.
ToLowerCase(s) == [i \in 1..Len(s) |-> LowerChar(s[i])]

\* Whether sub occurs in s at (1-based) position i.
OccursAt(s, sub, i) ==
  /\ i + Len(sub) - 1 <= Len(s)
  /\ \A j \in 1..Len(sub) : s[i + j - 1] = sub[j]

\* String.prototype.includes.
Includes(s, sub) == \E i \in 1..(Len(s) + 1) : OccursAt(s, sub, i)

RECURSIVE RunLen(_, _, _)
\* The number of consecutive characters of s from position i that are in class.
RunLen(s, i, class) ==
  IF i <= Len(s) /\ s[i] \in class THEN 1 + RunLen(s, i + 1, class) ELSE 0

\* The length of the match of [A-Z]+-\d+ anchored at position i of s, 0 if none.
\* Both quantifiers are greedy; giving back letters never helps, since the
\* character after a shorter run of letters is a letter, not the hyphen.
KeyLenAt(s, i) ==
  LET u == RunLen(s, i, Upper)
  IN  IF u = 0 \/ i + u > Len(s) \/ s[i + u] # "-" THEN 0
      ELSE LET d == RunLen(s, i + u + 1, Digit)
           IN  IF d = 0 THEN 0 ELSE u + 1 + d

RECURSIVE MatchAllFrom(_, _)
\* text.match(/[A-Z]+-\d+/g) || []: the leftmost non-overlapping matches from i.
MatchAllFrom(s, i) ==
  IF i > Len(s) THEN <<>>
  ELSE Bind(KeyLenAt(s, i),
            LAMBDA n :
              IF n > 0
              THEN <<SubSeq(s, i, i + n - 1)>>
                     \o Bind(i + n, LAMBDA j : MatchAllFrom(s, j))
              ELSE Bind(i + 1, LAMBDA j : MatchAllFrom(s, j)))

MatchAllKeys(s) == MatchAllFrom(s, 1)

BrowsePrefix == <<"/","b","r","o","w","s","e","/">>

\* url.match(/\/browse\/([A-Z]+-\d+)/): the capture group of the leftmost
\* match as a one-element sequence, or the empty sequence when there is none.
MatchBrowse(url) ==
  LET hits == {i \in 1..Len(url) :
                 /\ OccursAt(url, BrowsePrefix, i)
                 /\ KeyLenAt(url, i + Len(BrowsePrefix)) > 0}
  IN  IF hits = {} THEN <<>>
      ELSE LET i == CHOOSE h \in hits : \A g \in hits : h <= g
               k == i + Len(BrowsePrefix)
           IN  <<SubSeq(url, k, k + KeyLenAt(url, k) - 1)>>

(***************************************************************************)
(* Document extractors.                                                    *)
(***************************************************************************)
\* commentId of a mention extracted from a narrative: the parameter is omitted.
Undefined == "undefined"

\* The value null of a property that holds an object or a string the code
\* inspects: like the empty string, it is falsy.
JsNull == <<>>

\* JavaScript truthiness of an optional property f of object o that holds an
\* object or a string: it is present and neither null nor the empty string.
Truthy(o, f) == f \in DOMAIN o /\ o[f] # JsNull

\* node.attrs?.url is present and a non-empty string.
HasUrl(node) ==
  /\ "attrs" \in DOMAIN node
  /\ Truthy(node.attrs, "url")

\* One entry pushed on the mentions array (lines 90-95 and 102-107).
MentionEntry(key, source, commentId) ==
  IF commentId = Undefined
  THEN [key |-> key, type |-> "mention", source |-> source]
  ELSE [key |-> key, type |-> "mention", source |-> source,
        commentId |-> commentId]

\* The mentions pushed by the inlineCard branch of processNode.
CardMentions(node, source, commentId) ==
  IF node.type = "inlineCard" /\ HasUrl(node)
  THEN LET match == MatchBrowse(node.attrs.url)
       IN  [i \in 1..Len(match) |-> MentionEntry(match[i], source, commentId)]
  ELSE <<>>

\* The mentions pushed by the text branch of processNode.
TextMentions(node, source, commentId) ==
  IF node.type = "text" /\ Truthy(node, "text")
  THEN LET matches == MatchAllKeys(node.text)
       IN  [i \in 1..Len(matches) |->
              MentionEntry(matches[i], source, commentId)]
  ELSE <<>>

RECURSIVE processNode(_, _, _)
RECURSIVE processNodes(_, _, _)
\* The entries one call of processNode pushes, in push order: the node's own
\* URL, then its own text, then its children whatever its type.
processNode(node, source, commentId) ==
  CardMentions(node, source, commentId)
    \o TextMentions(node, source, commentId)
    \o (IF "content" \in DOMAIN node
        THEN processNodes(node.content, source, commentId)
        ELSE <<>>)

\* content.forEach(processNode).
processNodes(content, source, commentId) ==
  IF content = <<>> THEN <<>>
  ELSE processNode(Head(content), source, commentId)
         \o processNodes(Tail(content), source, commentId)

\* A faulty variant of MapSet: an existing key is removed and set anew at
\* the end, so that keys are ordered by their last occurrence.
MapSetMovingToEnd(entries, k, v) ==
  LET kept == {i \in 1..Len(entries) : entries[i][1] # k}
      Nth(n) == CHOOSE i \in kept : Cardinality({j \in kept : j <= i}) = n
  IN  Append([n \in 1..Cardinality(kept) |-> entries[Nth(n)]], <<k, v>>)

\* Map.prototype.set on an insertion-ordered list of <<key, value>> entries:
\* an existing key keeps its position and takes the new value, a new key is
\* appended.
MapSet(entries, k, v) ==
  IF \E i \in 1..Len(entries) : entries[i][1] = k
  THEN [i \in 1..Len(entries) |->
          IF entries[i][1] = k THEN <<k, v>> ELSE entries[i]]
  ELSE Append(entries, <<k, v>>)

RECURSIVE NewMapFrom(_, _)
\* new Map(iterable): the entries are set one after the other.
NewMapFrom(entries, pairs) ==
  IF pairs = <<>> THEN entries
  ELSE Bind(MapSet(entries, Head(pairs)[1], Head(pairs)[2]),
            LAMBDA set : NewMapFrom(set, Tail(pairs)))

\* [...new Map(mentions.map((m) => [m.key, m])).values()]
DedupByKey(mentions) ==
  LET Pairs(ms) == [i \in 1..Len(ms) |-> <<ms[i].key, ms[i]>>]
      Values(map) == [i \in 1..Len(map) |-> map[i][2]]
  IN  Bind(Pairs(mentions),
           LAMBDA pairs : Bind(NewMapFrom(<<>>, pairs), Values))

extractIssueMentions(content, source, commentId) ==
  Bind(processNodes(content, source, commentId), DedupByKey)

RECURSIVE extractTextContentOfAnyType(_)
\* A faulty variant of extractTextContent: the text payload is taken from a
\* node of any type.
extractTextContentOfAnyType(content) ==
  IF content = <<>> THEN <<>>
  ELSE LET node == Head(content)
           piece == IF Truthy(node, "text") THEN node.text
                    ELSE IF "content" \in DOMAIN node
                    THEN extractTextContentOfAnyType(node.content)
                    ELSE <<>>
       IN  piece \o extractTextContentOfAnyType(Tail(content))

RECURSIVE extractTextContent(_)
\* The content argument is always an array here (Array.isArray holds).
extractTextContent(content) ==
  IF content = <<>> THEN <<>>
  ELSE LET node == Head(content)
           piece == IF node.type = "text"
                    THEN (IF Truthy(node, "text") THEN node.text ELSE <<>>)
                    ELSE IF "content" \in DOMAIN node
                    THEN extractTextContent(node.content)
                    ELSE <<>>
       IN  piece \o extractTextContent(Tail(content))

\* comment.body?.content is present (an array is truthy even when empty).
HasBodyContent(comment) ==
  /\ "body" \in DOMAIN comment
  /\ "content" \in DOMAIN comment.body

cleanComment(comment) ==
  LET body == IF HasBodyContent(comment)
              THEN extractTextContent(comment.body.content)
              ELSE <<>>
      mentions == IF HasBodyContent(comment)
                  THEN extractIssueMentions(comment.body.content, "comment",
                                            comment.id)
                  ELSE <<>>
      base == [id |-> comment.id, body |-> body, created |-> comment.created,
               updated |-> comment.updated, mentions |-> mentions]
  IN  IF "author" \in DOMAIN comment /\ "displayName" \in DOMAIN comment.author
      THEN [author |-> comment.author.displayName] @@ base
      ELSE base

(***************************************************************************)
(* Record normalizer.                                                      *)
(***************************************************************************)
\* The record without fields.
NoFields == [x \in {} |-> x]

\* The fields of extra when cond holds, none otherwise: a conditional
\* assignment of optional properties.
Opt(cond, extra) == IF cond THEN extra ELSE NoFields

\* o extended with the fields of extra when cond holds.
With(o, cond, extra) == Opt(cond, extra) @@ o

\* {id, key, summary: x.fields?.summary} of a parent or subtask reference.
RefOf(x) ==
  With([id |-> x.id, key |-> x.key],
       "fields" \in DOMAIN x /\ "summary" \in DOMAIN x.fields,
       [summary |-> x.fields.summary])

\* issue.fields?.description?.content is present.
HasDescriptionContent(issue) ==
  /\ "description" \in DOMAIN issue.fields
  /\ "content" \in DOMAIN issue.fields.description

\* link.inwardIssue || link.outwardIssue
LinkedIssueOf(link) ==
  IF "inwardIssue" \in DOMAIN link THEN link.inwardIssue ELSE link.outwardIssue

\* link.type.inward || link.type.outward (the empty string is falsy).
RelationshipOf(link) ==
  IF "inward" \in DOMAIN link.type /\ link.type.inward # ""
  THEN link.type.inward
  ELSE link.type.outward

\* The entry issuelinks.map builds for one link.
LinkEntry(link) ==
  LET linkedIssue == LinkedIssueOf(link)
  IN  With([key |-> linkedIssue.key, type |-> "link",
            relationship |-> RelationshipOf(link), source |-> "description"],
           "fields" \in DOMAIN linkedIssue
             /\ "summary" \in DOMAIN linkedIssue.fields,
           [summary |-> linkedIssue.fields.summary])

\* issue.fields.issuelinks.map(...), lines 199-209.
LinkEntries(issue) ==
  [i \in 1..Len(issue.fields.issuelinks) |->
     LinkEntry(issue.fields.issuelinks[i])]

\* A faulty variant of RelatedOf: the links are assigned to the list instead
\* of appended to it.
RelatedOfLinksOnly(issue) ==
  IF "issuelinks" \in DOMAIN issue.fields /\ Len(issue.fields.issuelinks) > 0
  THEN LinkEntries(issue)
  ELSE IF HasDescriptionContent(issue)
  THEN extractIssueMentions(issue.fields.description.content,
                            "description", Undefined)
  ELSE <<>>

\* cleanedIssue.relatedIssues after lines 180-215: [] at first, replaced by
\* the narrative mentions when there are any, then extended by the links
\* when there are any.
RelatedOf(issue) ==
  LET AfterMentions(mentions) == IF Len(mentions) > 0 THEN mentions ELSE <<>>
      AfterLinks(related) ==
        IF "issuelinks" \in DOMAIN issue.fields
             /\ Len(issue.fields.issuelinks) > 0
        THEN related \o LinkEntries(issue)
        ELSE related
  IN  Bind(IF HasDescriptionContent(issue)
           THEN Bind(extractIssueMentions(issue.fields.description.content,
                                          "description", Undefined),
                     AfterMentions)
           ELSE <<>>,
           AfterLinks)

\* A faulty variant of StoryPointsOf: a record without the attribute gets
\* storyPoints null.
StoryPointsOrNull(f) ==
  [storyPoints |-> IF "customfield_10016" \in DOMAIN f
                   THEN f.customfield_10016 ELSE "null"]

\* Lines 184-186: storyPoints is set when the attribute is not undefined.
StoryPointsOf(f) ==
  Opt("customfield_10016" \in DOMAIN f, [storyPoints |-> f.customfield_10016])

cleanIssue(issue) ==
  LET f == issue.fields
  IN  [id |-> issue.id, key |-> issue.key,
       description |-> IF HasDescriptionContent(issue)
                       THEN extractTextContent(f.description.content)
                       ELSE <<>>,
       relatedIssues |-> RelatedOf(issue)]
        @@ Opt("summary" \in DOMAIN f, [summary |-> f.summary])
        @@ Opt("status" \in DOMAIN f /\ "name" \in DOMAIN f.status,
               [status |-> f.status.name])
        @@ Opt("created" \in DOMAIN f, [created |-> f.created])
        @@ Opt("updated" \in DOMAIN f, [updated |-> f.updated])
        @@ StoryPointsOf(f)
        @@ Opt(Truthy(f, "parent"), [parent |-> RefOf(f.parent)])
        @@ Opt(Truthy(f, "customfield_10014"),
               [epicLink |-> [id |-> f.customfield_10014,
                              key |-> f.customfield_10014]])
        @@ Opt("subtasks" \in DOMAIN f /\ Len(f.subtasks) > 0,
               [children |-> [i \in 1..Len(f.subtasks) |->
                                RefOf(f.subtasks[i])]])

(***************************************************************************)
(* Inputs: documents.                                                      *)
(***************************************************************************)
\* All sequences over S of length at most n.
SeqsUpTo(S, n) == UNION {[1..k -> S] : k \in 0..n}

KeyA1 == <<"A","-","1">>
KeyB2 == <<"B","-","2">>
KeyC3 == <<"C","-","3">>
KeyE9 == <<"E","-","9">>

\* "B-2 A-1"
TextB2A1 == <<"B","-","2"," ","A","-","1">>
\* "x.io/browse/B-2"
UrlB2 == <<"x",".","i","o","/","b","r","o","w","s","e","/","B","-","2">>
\* "x.io/wiki/A-1"
UrlWiki == <<"x",".","i","o","/","w","i","k","i","/","A","-","1">>

\* Nodes without their child list: two text leaves, an auto-link card whose
\* URL names a record, one whose URL names none, a container, and a node that
\* is not of type text but carries a text payload.
NodeShapes ==
  { [type |-> "text", text |-> KeyA1],
    [type |-> "text", text |-> TextB2A1],
    [type |-> "inlineCard", attrs |-> [url |-> UrlB2]],
    [type |-> "inlineCard", attrs |-> [url |-> UrlWiki]],
    [type |-> "paragraph"],
    [type |-> "emoji", text |-> KeyC3] }

RECURSIVE ForestsOf(_)
RECURSIVE TreesOf(_)
\* The ordered forests of exactly n nodes: any shape may carry a child list.
ForestsOf(n) ==
  IF n = 0 THEN {<<>>}
  ELSE UNION {{<<t>> \o rest : t \in TreesOf(k), rest \in ForestsOf(n - k)} :
                k \in 1..n}

\* The trees of exactly k nodes.
TreesOf(k) ==
  IF k = 1 THEN NodeShapes
  ELSE {[content |-> kids] @@ shape :
          shape \in NodeShapes, kids \in ForestsOf(k - 1)}

TextAlphabet == {"A", "B", "-", "1", "x"}

\* One text leaf for every short string over the alphabet.
TextDocs == {<<[type |-> "text", text |-> t]>> :
               t \in SeqsUpTo(TextAlphabet, MaxTextLen)}

Docs == TextDocs \cup UNION {ForestsOf(n) : n \in 0..MaxNodes}

(***************************************************************************)
(* Inputs: raw comments and raw records.                                   *)
(***************************************************************************)
\* A raw comment with the given id and, when hasBody, the given body content.
RawComment(id, hasBody, content) ==
  With([id |-> id, created |-> "t0", updated |-> "t1",
        author |-> [displayName |-> "ann"]],
       hasBody, [body |-> [content |-> content]])

\* The comments handed to cleanComment on its own.
RawComments ==
  {RawComment("c1", TRUE, d) : d \in Docs}
    \cup {RawComment("c1", FALSE, <<>>),
          [id |-> "c2", created |-> "t0", updated |-> "t1",
           body |-> [content |-> <<[type |-> "text", text |-> KeyA1]>>]]}

\* Structured links: each carries exactly one linked record, as the remote
\* system delivers them.
LinkPool ==
  { [type |-> [inward |-> "is blocked by", outward |-> "blocks"],
     inwardIssue |-> [key |-> KeyC3, fields |-> [summary |-> "third"]]],
    [type |-> [inward |-> "is blocked by", outward |-> "blocks"],
     outwardIssue |-> [key |-> KeyA1, fields |-> [summary |-> "first"]]],
    [type |-> [inward |-> "", outward |-> "relates to"],
     outwardIssue |-> [key |-> KeyB2]] }

\* The narrative documents of generated raw records.
DescDocs ==
  { <<>>,
    <<[type |-> "paragraph", content |-> <<[type |-> "emoji"]>>]>>,
    <<[type |-> "text", text |-> KeyA1]>>,
    <<[type |-> "paragraph",
       content |-> <<[type |-> "text", text |-> TextB2A1],
                     [type |-> "inlineCard", attrs |-> [url |-> UrlB2]]>>]>> }

\* The optional fields of a raw record other than the narrative and the links.
OptionalFieldSets ==
  LET Pick(S) == {NoFields} \cup S
  IN  { a @@ b @@ c @@ d :
          a \in Pick({[customfield_10016 |-> "5"],
                      [customfield_10016 |-> "null"]}),
          b \in Pick({[parent |-> [id |-> "7", key |-> KeyC3,
                                   fields |-> [summary |-> "parent"]]],
                      [parent |-> JsNull]}),
          c \in Pick({[customfield_10014 |-> KeyE9],
                      [customfield_10014 |-> JsNull]}),
          d \in Pick({[subtasks |-> <<>>],
                      [subtasks |-> <<[id |-> "8", key |-> KeyB2]>>]}) }

\* A raw record: the fields every record has, then the optional ones.
RawIssue(key, opt) ==
  [id |-> "10", key |-> key,
   fields |-> opt @@ [summary |-> "sum", status |-> [name |-> "Open"],
                      created |-> "t0", updated |-> "t1"]]

\* The records handed to cleanIssue on its own.
RawIssues ==
  { RawIssue(KeyA1, o @@ d @@ l) :
      o \in OptionalFieldSets,
      d \in {NoFields}
              \cup {[description |-> [content |-> c]] : c \in DescDocs},
      l \in {NoFields}
              \cup {[issuelinks |-> ls] : ls \in SeqsUpTo(LinkPool, MaxLinks)} }

(***************************************************************************)
(* The transport: what a request may come back with.                       *)
(***************************************************************************)
\* A request that was never issued, and one whose fetchJson promise has not
\* settled yet.
NotSent == [kind |-> "none"]
Pending == [kind |-> "pending"]

\* A successful response with its parsed JSON body.
Ok(body) == [kind |-> "ok", body |-> body]

\* The failures of a request: a response that is not ok, with its status and
\* the message the remote gave (empty: none), or a rejected fetch.
Failures ==
  { [kind |-> "http", status |-> 404, text |-> <<"Issue does not exist">>],
    [kind |-> "http", status |-> 500, text |-> <<>>],
    [kind |-> "network"] }

\* String(response.status) in the template literal of line 68.
StatusString(status) ==
  CASE status = 400 -> "400" [] status = 401 -> "401" [] status = 403 -> "403"
    [] status = 404 -> "404" [] status = 500 -> "500"

\* errorCategory of handleFetchError.
ErrorCategory(status) ==
  IF status = 401 THEN <<" [AUTHENTICATION_ERROR]">>
  ELSE IF status = 403 THEN <<" [PERMISSION_ERROR]">>
  ELSE IF status = 404 THEN <<" [NOT_FOUND_ERROR]">>
  ELSE IF status = 400 THEN <<" [VALIDATION_ERROR]">>
  ELSE IF status >= 500 THEN <<" [SERVER_ERROR]">>
  ELSE <<>>

\* The Error handleFetchError throws for a response that is not ok. A message
\* is a sequence of pieces of text; the pieces of " (Status: 404)" are kept
\* apart so that includes("(Status: 404)") is computed on them.
handleFetchError(response) ==
  LET errorMessage == IF response.text # <<>>
                      THEN <<": ">> \o response.text
                      ELSE <<>>
  IN  [name |-> "Error",
       message |-> <<"JIRA API Error">> \o ErrorCategory(response.status)
                     \o errorMessage
                     \o <<" ", "(Status: ", StatusString(response.status), ")",
                          "\nDetails: ">> \o response.text]

\* How the promise of fetchJson settles for a response.
fetchJson(response) ==
  IF response.kind = "ok"
  THEN [kind |-> "fulfilled", value |-> response.body]
  ELSE IF response.kind = "http"
  THEN [kind |-> "rejected", error |-> handleFetchError(response)]
  ELSE [kind |-> "rejected",
        error |-> [name |-> "TypeError", message |-> <<"fetch failed">>]]

\* A promise that has not settled.
Unsettled == [kind |-> "pending"]

\* The promise of fetchJson for a request in state r.
PromiseOf(r) == IF r.kind \in {"none", "pending"} THEN Unsettled ELSE fetchJson(r)

\* A faulty variant of PromiseAll: a hand-rolled join that counts fulfilments
\* only, so that a rejection leaves it pending.
PromiseAllNeverRejects(promises, i) ==
  IF \A j \in 1..Len(promises) : promises[j].kind = "fulfilled"
  THEN [kind |-> "fulfilled",
        value |-> [j \in 1..Len(promises) |-> promises[j].value]]
  ELSE Unsettled

\* A faulty variant of PromiseAll: a join with a deadline, which rejects when
\* a promise is still pending at the time another one fulfils.
PromiseAllWithDeadline(promises, i) ==
  IF promises[i].kind = "rejected" THEN promises[i]
  ELSE IF \A j \in 1..Len(promises) : promises[j].kind = "fulfilled"
  THEN [kind |-> "fulfilled",
        value |-> [j \in 1..Len(promises) |-> promises[j].value]]
  ELSE [kind |-> "rejected",
        error |-> [name |-> "Error", message |-> <<"timed out">>]]

\* Promise.all over promises of which the one at index i has just settled,
\* none having rejected before: it rejects with that promise's error, fulfils
\* with all the values in index order once every promise has fulfilled, and
\* stays pending otherwise.
PromiseAll(promises, i) ==
  IF promises[i].kind = "rejected" THEN promises[i]
  ELSE IF \A j \in 1..Len(promises) : promises[j].kind = "fulfilled"
  THEN [kind |-> "fulfilled",
        value |-> [j \in 1..Len(promises) |-> promises[j].value]]
  ELSE Unsettled

\* What an operation has given its caller: nothing yet, a value, or an error.
NoResult == [kind |-> "none"]
Returned(value) == [kind |-> "value", value |-> value]
Thrown(error) == [kind |-> "error", error |-> error]

(***************************************************************************)
(* getIssueWithComments, in pieces.                                        *)
(***************************************************************************)
\* The catch clause of lines 360-366: the error the operation throws.
GiCatch(error, issueId) ==
  IF error.name = "Error"
       /\ Includes(error.message, <<"(Status: ", "404", ")">>)
  THEN [name |-> "Error", message |-> <<"Issue not found: ", issueId>>]
  ELSE error

\* comments.flatMap((comment) => comment.mentions)
RECURSIVE FlatMentions(_)
FlatMentions(comments) ==
  IF comments = <<>> THEN <<>>
  ELSE Head(comments).mentions \o FlatMentions(Tail(comments))

\* A faulty variant of Assemble: the merged relationship list is passed
\* through the deduplication by key that the extractor uses.
AssembleDeduplicating(issueData, commentsData) ==
  LET Merge(issue, comments) ==
        [issue EXCEPT !.relatedIssues =
                        DedupByKey(issue.relatedIssues
                                     \o FlatMentions(comments))]
          @@ [comments |-> comments]
  IN  Bind(cleanIssue(issueData),
           LAMBDA issue :
             Bind([i \in 1..Len(commentsData.comments) |->
                     cleanComment(commentsData.comments[i])],
                  LAMBDA comments : Merge(issue, comments)))

\* Lines 368-378 and 314-328: the record with its comments and with their
\* mentions appended to its relationship list.
Assemble(issueData, commentsData) ==
  LET Merge(issue, comments) ==
        [issue EXCEPT !.relatedIssues =
                        issue.relatedIssues \o FlatMentions(comments)]
          @@ [comments |-> comments]
  IN  Bind(cleanIssue(issueData),
           LAMBDA issue :
             Bind([i \in 1..Len(commentsData.comments) |->
                     cleanComment(commentsData.comments[i])],
                  LAMBDA comments : Merge(issue, comments)))

\* A faulty variant of GiFollowUp: the follow-up without its try/catch, so
\* that its rejection is thrown to the caller.
GiFollowUpThrows(issue, settled) ==
  IF settled.kind = "rejected" THEN Thrown(settled.error)
  ELSE IF "fields" \in DOMAIN settled.value
            /\ "summary" \in DOMAIN settled.value.fields
  THEN Returned([issue EXCEPT !.epicLink =
                   [summary |-> settled.value.fields.summary]
                     @@ issue.epicLink])
  ELSE Returned(issue)

\* Lines 380-391 once the epic follow-up has settled: a fulfilment fills in
\* epicLink.summary, a rejection is caught and logged, and the record is
\* returned either way.
GiFollowUp(issue, settled) ==
  IF settled.kind = "fulfilled"
       /\ "fields" \in DOMAIN settled.value
       /\ "summary" \in DOMAIN settled.value.fields
  THEN Returned([issue EXCEPT !.epicLink =
                   [summary |-> settled.value.fields.summary]
                     @@ issue.epicLink])
  ELSE Returned(issue)

(***************************************************************************)
(* getEpicChildren, in pieces.                                             *)
(***************************************************************************)
\* The promise of the async callback of lines 310-329 for one record, once
\* its comment request has settled: a rejection passes through, a fulfilment
\* gives the assembled record.
EcChild(issue, settled) ==
  IF settled.kind = "rejected" THEN settled
  ELSE [kind |-> "fulfilled", value |-> Assemble(issue, settled.value)]

(***************************************************************************)
(* findStoryPointsField, in pieces.                                        *)
(***************************************************************************)
\* The result null.
Null == "null"

\* Lines 642-648.
storyPointsFieldNames ==
  << <<"s","t","o","r","y"," ","p","o","i","n","t","s">>,
     <<"s","t","o","r","y","p","o","i","n","t","s">>,
     <<"s","t","o","r","y"," ","p","o","i","n","t"," ","e","s","t","i","m","a","t","e">>,
     <<"e","s","t","i","m","a","t","e">>,
     <<"p","o","i","n","t","s">> >>

\* Lines 662-669.
commonStoryPointsFields ==
  << "customfield_10002", "customfield_10016", "customfield_10020",
     "customfield_10026", "customfield_10004", "customfield_10008" >>

\* The least index of seq whose element satisfies P, 0 when there is none:
\* Array.prototype.find and a for-of loop that returns at its first hit.
FirstIndex(seq, P(_)) ==
  LET hits == {i \in 1..Len(seq) : P(seq[i])}
  IN  IF hits = {} THEN 0 ELSE CHOOSE i \in hits : \A j \in hits : i <= j

\* field.name?.toLowerCase() || ""
FieldNameOf(field) ==
  IF "name" \in DOMAIN field THEN ToLowerCase(field.name) ELSE <<>>

\* Line 654: the lowercased name contains one of the fixed substrings.
NameMatches(field) ==
  \E k \in 1..Len(storyPointsFieldNames) :
    Includes(FieldNameOf(field), storyPointsFieldNames[k])

\* The greatest index of seq whose element satisfies P, 0 when there is none.
LastIndex(seq, P(_)) ==
  LET hits == {i \in 1..Len(seq) : P(seq[i])}
  IN  IF hits = {} THEN 0 ELSE CHOOSE i \in hits : \A j \in hits : i >= j

\* A faulty variant of ScanFields: the loop does not return at its first hit,
\* so that the last matching field wins.
ScanFieldsLastWins(fields) ==
  Bind(LastIndex(fields, NameMatches),
       LAMBDA i : IF i = 0 THEN <<>> ELSE <<fields[i].id>>)

\* Lines 650-657 on the entries of a field list, in Object.entries order: the
\* identifier of the first matching field as a one-element sequence, or the
\* empty sequence.
ScanFields(fields) ==
  Bind(FirstIndex(fields, NameMatches),
       LAMBDA i : IF i = 0 THEN <<>> ELSE <<fields[i].id>>)

\* A faulty variant of MetaStep: when the metadata gives nothing, the usual
\* identifier is returned instead of going on to the fallback.
MetaStepGuessing(createMeta, issueType) ==
  IF "projects" \in DOMAIN createMeta /\ Len(createMeta.projects) > 0
  THEN LET project == createMeta.projects[1]
           SameName(it) == ToLowerCase(it.name) = ToLowerCase(issueType)
           Scan(i) == IF i > 0 /\ "fields" \in DOMAIN project.issuetypes[i]
                           /\ ScanFields(project.issuetypes[i].fields) # <<>>
                      THEN ScanFields(project.issuetypes[i].fields)
                      ELSE <<"customfield_10016">>
       IN  IF "issuetypes" \in DOMAIN project
           THEN Bind(FirstIndex(project.issuetypes, SameName), Scan)
           ELSE <<"customfield_10016">>
  ELSE <<"customfield_10016">>

\* Lines 634-659: the metadata step; the empty sequence when it returns
\* nothing and the code goes on to the fallback.
MetaStep(createMeta, issueType) ==
  IF "projects" \in DOMAIN createMeta /\ Len(createMeta.projects) > 0
  THEN LET project == createMeta.projects[1]
           SameName(it) == ToLowerCase(it.name) = ToLowerCase(issueType)
           Scan(i) == IF i > 0 /\ "fields" \in DOMAIN project.issuetypes[i]
                      THEN ScanFields(project.issuetypes[i].fields)
                      ELSE <<>>
       IN  IF "issuetypes" \in DOMAIN project
           THEN Bind(FirstIndex(project.issuetypes, SameName), Scan)
           ELSE <<>>
  ELSE <<>>

\* A faulty variant of ProbeStep: the resolved name is not lowercased before
\* it is searched.
ProbeStepCaseSensitive(fullIssue) ==
  LET Accepts(fieldId) ==
        /\ "names" \in DOMAIN fullIssue
        /\ fieldId \in DOMAIN fullIssue.names
        /\ fullIssue.names[fieldId] # <<>>
        /\ Includes(fullIssue.names[fieldId], <<"s","t","o","r","y">>)
        /\ Includes(fullIssue.names[fieldId], <<"p","o","i","n","t">>)
  IN  Bind(FirstIndex(commonStoryPointsFields, Accepts),
           LAMBDA i : IF i = 0 THEN Null ELSE commonStoryPointsFields[i])

\* A faulty variant of ProbeStep: when the shortlist yields nothing, its first
\* identifier is returned all the same.
ProbeStepDefaulting(fullIssue) ==
  LET Accepts(fieldId) ==
        /\ "names" \in DOMAIN fullIssue
        /\ fieldId \in DOMAIN fullIssue.names
        /\ fullIssue.names[fieldId] # <<>>
        /\ Includes(ToLowerCase(fullIssue.names[fieldId]), <<"s","t","o","r","y">>)
        /\ Includes(ToLowerCase(fullIssue.names[fieldId]), <<"p","o","i","n","t">>)
  IN  Bind(FirstIndex(commonStoryPointsFields, Accepts),
           LAMBDA i : commonStoryPointsFields[IF i = 0 THEN 1 ELSE i])

\* Lines 679-686 on the probed record: the shortlist identifier accepted, or
\* Null.
ProbeStep(fullIssue) ==
  LET Accepts(fieldId) ==
        /\ "names" \in DOMAIN fullIssue
        /\ fieldId \in DOMAIN fullIssue.names
        /\ fullIssue.names[fieldId] # <<>>
        /\ Includes(ToLowerCase(fullIssue.names[fieldId]), <<"s","t","o","r","y">>)
        /\ Includes(ToLowerCase(fullIssue.names[fieldId]), <<"p","o","i","n","t">>)
  IN  Bind(FirstIndex(commonStoryPointsFields, Accepts),
           LAMBDA i : IF i = 0 THEN Null ELSE commonStoryPointsFields[i])

\* Lines 278-283: what searchIssues returns for a response body.
searchIssues(data) ==
  [total |-> data.total,
   issues |-> [i \in 1..Len(data.issues) |-> cleanIssue(data.issues[i])]]

(***************************************************************************)
(* Inputs: the payloads the remote system answers the aggregates with.     *)
(***************************************************************************)
\* Three records: one with a narrative mention and a link, one with an epic
\* reference, one with neither narrative nor links.
SampleIssues ==
  { RawIssue(KeyA1,
             [description |-> [content |-> <<[type |-> "text",
                                              text |-> KeyA1]>>],
              issuelinks |-> <<[type |-> [inward |-> "is blocked by",
                                          outward |-> "blocks"],
                                inwardIssue |-> [key |-> KeyC3]]>>]),
    RawIssue(KeyB2,
             [description |-> [content |-> <<[type |-> "text",
                                              text |-> TextB2A1]>>],
              customfield_10014 |-> KeyE9]),
    RawIssue(KeyC3, NoFields) }

\* Three comment lists: none, one comment mentioning A-1, and two comments
\* mentioning [A-1] and [B-2, A-1].
SampleComments ==
  { [comments |-> <<>>],
    [comments |-> <<RawComment("c1", TRUE,
                               <<[type |-> "text", text |-> KeyA1]>>)>>],
    [comments |-> <<RawComment("c1", TRUE,
                               <<[type |-> "text", text |-> KeyA1]>>),
                    RawComment("c2", TRUE,
                               <<[type |-> "text", text |-> TextB2A1]>>)>>] }

\* The answers to the epic follow-up: with and without a summary.
SampleEpics == { [fields |-> [summary |-> "epic"]], [key |-> KeyE9] }

\* What a search answers: up to MaxChildren of the sample records.
SampleSearches ==
  {[total |-> Len(l), issues |-> l] : l \in SeqsUpTo(SampleIssues, MaxChildren)}

(***************************************************************************)
(* Inputs: creation metadata and probed records.                           *)
(***************************************************************************)
NameStory == <<"S","t","o","r","y">>
NameStoryLower == <<"s","t","o","r","y">>
NameBug == <<"B","u","g">>

FieldSPE == [id |-> "customfield_10016", name |-> <<"S","t","o","r","y"," ","P","o","i","n","t"," ","E","s","t","i","m","a","t","e">>]
FieldOE == [id |-> "timeoriginalestimate", name |-> <<"O","r","i","g","i","n","a","l"," ","E","s","t","i","m","a","t","e">>]

\* The fields a metadata field list is drawn from: "Story Point Estimate",
\* "Original Estimate", "Summary" and a field without a name.
FieldPool ==
  { FieldSPE, FieldOE,
    [id |-> "summary", name |-> <<"S","u","m","m","a","r","y">>],
    [id |-> "labels"] }

\* The field lists: up to MaxFields distinct fields in any order.
FieldLists ==
  {fl \in SeqsUpTo(FieldPool, MaxFields) :
     \A i, j \in 1..Len(fl) : i # j => fl[i] # fl[j]}

\* The metadata answers: no project, a project without issue types, issue
\* types without a field list, and the requested type (in either spelling,
\* alone or after another type) with each field list.
SampleMetas ==
  { [expand |-> "projects"],
    [projects |-> <<>>],
    [projects |-> <<[key |-> "ACI"]>>],
    [projects |-> <<[key |-> "ACI",
                     issuetypes |-> <<[name |-> NameStory]>>]>>],
    [projects |-> <<[key |-> "ACI",
                     issuetypes |-> <<[name |-> NameBug,
                                       fields |-> <<FieldSPE>>]>>]>>] }
    \cup {[projects |-> <<[key |-> "ACI",
                           issuetypes |-> <<[name |-> NameStory,
                                             fields |-> fl]>>]>>] :
            fl \in FieldLists}
    \cup {[projects |-> <<[key |-> "ACI",
                           issuetypes |-> <<[name |-> NameBug,
                                             fields |-> <<FieldSPE>>],
                                            [name |-> NameStoryLower,
                                             fields |-> fl]>>]>>] :
            fl \in FieldLists}

\* The field-name maps of a probed record: each of two shortlist identifiers
\* and one other identifier is absent or resolves to one of a few names.
NameMaps ==
  LET Pick(S) == {NoFields} \cup S
  IN  { a @@ b @@ c :
          a \in Pick({[customfield_10002 |-> <<"S","t","o","r","y"," ","P","o","i","n","t","s">>],
                      [customfield_10002 |-> <<"S","p","r","i","n","t">>]}),
          b \in Pick({[customfield_10016 |-> <<"S","t","o","r","y"," ","P","o","i","n","t","s">>],
                      [customfield_10016 |-> <<"S","t","o","r","y"," ","P","o","i","n","t"," ","E","s","t","i","m","a","t","e">>],
                      [customfield_10016 |-> <<>>]}),
          c \in Pick({[summary |-> <<"S","u","m","m","a","r","y">>]}) }

\* The probed records: with each field-name map, and without any.
SampleProbes ==
  {[key |-> KeyA1, names |-> m] : m \in NameMaps} \cup {[key |-> KeyA1]}

IssueIds == {"A-1", "NOPE-1"}

(***************************************************************************)
(* State.                                                                  *)
(***************************************************************************)
VARIABLES
  pc,      \* where the running operation is suspended: "idle" before a call
  op,      \* the operation called
  arg,     \* its argument
  net,     \* per named request: NotSent, Pending or the response
  cnet,    \* getEpicChildren: per returned record, its comment request
  parts,   \* getEpicChildren: per returned record, its callback's promise
  result,  \* what the caller has received
  log,     \* the requests issued so far, in the order of their fetch calls
  order    \* getEpicChildren: the records' indices, in the order in which
           \* their comment requests were answered

vars == <<pc, op, arg, net, cnet, parts, result, log, order>>

Requests == {"issue", "comments", "epic", "search", "meta", "probe", "put"}

\* A fetch call: the request it is in the code, the index of the callback that
\* made it (0 outside callbacks) and the key that its URL is built from.
Request(req, idx, key) == [req |-> req, idx |-> idx, key |-> key]

Failed(r) == r.kind \in {"http", "network"}

Init ==
  /\ pc = "idle"
  /\ op = "none"
  /\ arg = "none"
  /\ net = [r \in Requests |-> NotSent]
  /\ cnet = <<>>
  /\ parts = <<>>
  /\ result = NoResult
  /\ log = <<>>
  /\ order = <<>>

(***************************************************************************)
(* The normalizers called on their own.                                    *)
(***************************************************************************)
CleanCommentStep ==
  /\ pc = "idle"
  /\ \E comment \in RawComments :
       /\ arg' = comment
       /\ result' = Returned(cleanComment(comment))
  /\ op' = "cleanComment"
  /\ pc' = "done"
  /\ UNCHANGED <<net, cnet, parts, log, order>>

CleanIssueStep ==
  /\ pc = "idle"
  /\ \E issue \in RawIssues :
       /\ arg' = issue
       /\ result' = Returned(cleanIssue(issue))
  /\ op' = "cleanIssue"
  /\ pc' = "done"
  /\ UNCHANGED <<net, cnet, parts, log, order>>

(***************************************************************************)
(* getIssueWithComments.                                                   *)
(***************************************************************************)
\* Lines 354-359: both primary requests are issued, then the operation awaits
\* Promise.all of the two.
GiCall ==
  /\ pc = "idle"
  /\ \E issueId \in IssueIds :
       /\ arg' = issueId
       /\ log' = <<Request("issue", 0, issueId),
                   Request("comments", 0, issueId)>>
  /\ op' = "getIssueWithComments"
  /\ net' = [net EXCEPT !.issue = Pending, !.comments = Pending]
  /\ pc' = "gi_join"
  /\ UNCHANGED <<cnet, parts, result, order>>

\* The index of a primary request in the array given to Promise.all.
GiIndex(r) == IF r = "issue" THEN 1 ELSE 2

\* A faulty variant of GiJoin: the follow-up is made from the record alone, so
\* that it is also issued when the comments request has failed.
GiJoinFollowingUpRegardless(r, response) ==
  LET FollowUp(n1) ==
        IF n1.issue.kind = "ok" /\ Truthy(n1.issue.body.fields, "customfield_10014")
        THEN <<[n1 EXCEPT !.epic = Pending],
               Append(log, Request("epic", 0,
                                   n1.issue.body.fields.customfield_10014))>>
        ELSE <<n1, log>>
      Joined(all, n1) ==
        IF all.kind = "rejected"
        THEN <<"done", FollowUp(n1)[1], Thrown(GiCatch(all.error, arg)),
               FollowUp(n1)[2]>>
        ELSE IF all.kind = "fulfilled"
        THEN Bind(Assemble(all.value[1], all.value[2]),
                  LAMBDA issue :
                    IF "epicLink" \in DOMAIN issue
                    THEN <<"gi_epic", [n1 EXCEPT !.epic = Pending], NoResult,
                           Append(log, Request("epic", 0, issue.epicLink.key))>>
                    ELSE <<"done", n1, Returned(issue), log>>)
        ELSE <<"gi_join", n1, NoResult, log>>
  IN  Bind([net EXCEPT ![r] = response],
           LAMBDA n1 :
             Bind(PromiseAll(<<PromiseOf(n1.issue), PromiseOf(n1.comments)>>,
                             GiIndex(r)),
                  LAMBDA all : Joined(all, n1)))

\* What the operation does once request r has settled while it awaits
\* Promise.all (lines 355-391): <<pc, net, result, log>> after it.
GiJoin(r, response) ==
  LET Joined(all, n1) ==
        IF all.kind = "rejected"
        THEN <<"done", n1, Thrown(GiCatch(all.error, arg)), log>>
        ELSE IF all.kind = "fulfilled"
        THEN Bind(Assemble(all.value[1], all.value[2]),
                  LAMBDA issue :
                    IF "epicLink" \in DOMAIN issue
                    THEN <<"gi_epic", [n1 EXCEPT !.epic = Pending], NoResult,
                           Append(log, Request("epic", 0, issue.epicLink.key))>>
                    ELSE <<"done", n1, Returned(issue), log>>)
        ELSE <<"gi_join", n1, NoResult, log>>
  IN  Bind([net EXCEPT ![r] = response],
           LAMBDA n1 :
             Bind(PromiseAll(<<PromiseOf(n1.issue), PromiseOf(n1.comments)>>,
                             GiIndex(r)),
                  LAMBDA all : Joined(all, n1)))

\* The promise of one primary request settles. After Promise.all has
\* rejected, the other promise still settles, unobserved.
GiSettle(r, response) ==
  /\ op = "getIssueWithComments"
  /\ net[r] = Pending
  /\ IF pc = "gi_join"
     THEN \E next \in {GiJoin(r, response)} :
            /\ pc' = next[1]
            /\ net' = next[2]
            /\ result' = next[3]
            /\ log' = next[4]
     ELSE /\ net' = [net EXCEPT ![r] = response]
          /\ UNCHANGED <<pc, result, log>>
  /\ UNCHANGED <<op, arg, cnet, parts, order>>

GiSettleIssue ==
  \E response \in {Ok(b) : b \in SampleIssues} \cup Failures :
    GiSettle("issue", response)

GiSettleComments ==
  \E response \in {Ok(b) : b \in SampleComments} \cup Failures :
    GiSettle("comments", response)

\* Lines 380-391: the follow-up settles and the record is returned.
GiSettleEpic ==
  /\ pc = "gi_epic"
  /\ net.epic = Pending
  /\ \E response \in {Ok(b) : b \in SampleEpics} \cup Failures :
       /\ net' = [net EXCEPT !.epic = response]
       /\ result' = GiFollowUp(Assemble(net.issue.body, net.comments.body),
                               fetchJson(response))
  /\ pc' = "done"
  /\ UNCHANGED <<op, arg, cnet, parts, log, order>>

(***************************************************************************)
(* getEpicChildren.                                                        *)
(***************************************************************************)
EpicKeys == {"E-9"}

\* Line 307: the search is issued and awaited.
EcCall ==
  /\ pc = "idle"
  /\ \E epicKey \in EpicKeys :
       /\ arg' = epicKey
       /\ log' = <<Request("search", 0, epicKey)>>
  /\ op' = "getEpicChildren"
  /\ net' = [net EXCEPT !.search = Pending]
  /\ pc' = "ec_search"
  /\ UNCHANGED <<cnet, parts, result, order>>

\* A faulty variant of EcSettleSearch: the records are gone through one after
\* the other, so that only the comment request of the first is issued when
\* the search returns.
EcSettleSearchOneAtATime ==
  /\ pc = "ec_search"
  /\ net.search = Pending
  /\ \E response \in {Ok(b) : b \in SampleSearches} \cup Failures :
       /\ net' = [net EXCEPT !.search = response]
       /\ \E settled \in {fetchJson(response)} :
            IF settled.kind = "rejected"
            THEN /\ result' = Thrown(settled.error)
                 /\ pc' = "done"
                 /\ UNCHANGED <<cnet, parts, log>>
            ELSE IF Len(settled.value.issues) = 0
            THEN /\ result' = Returned(<<>>)
                 /\ pc' = "done"
                 /\ UNCHANGED <<cnet, parts, log>>
            ELSE /\ cnet' = [i \in 1..Len(settled.value.issues) |->
                               IF i = 1 THEN Pending ELSE NotSent]
                 /\ parts' = [i \in 1..Len(settled.value.issues) |-> Unsettled]
                 /\ log' = Append(log, Request("comments", 1,
                                               settled.value.issues[1].key))
                 /\ pc' = "ec_join"
                 /\ UNCHANGED result
  /\ UNCHANGED <<op, arg, order>>

\* Lines 307-310: a failed search fails the operation; after a successful one
\* the callback is started for every record, each issuing its comment request
\* before any is awaited. Promise.all of no promises fulfils at once.
EcSettleSearch ==
  /\ pc = "ec_search"
  /\ net.search = Pending
  /\ \E response \in {Ok(b) : b \in SampleSearches} \cup Failures :
       /\ net' = [net EXCEPT !.search = response]
       /\ \E settled \in {fetchJson(response)} :
            IF settled.kind = "rejected"
            THEN /\ result' = Thrown(settled.error)
                 /\ pc' = "done"
                 /\ UNCHANGED <<cnet, parts, log>>
            ELSE IF Len(settled.value.issues) = 0
            THEN /\ result' = Returned(<<>>)
                 /\ pc' = "done"
                 /\ UNCHANGED <<cnet, parts, log>>
            ELSE /\ cnet' = [i \in 1..Len(settled.value.issues) |-> Pending]
                 /\ parts' = [i \in 1..Len(settled.value.issues) |-> Unsettled]
                 /\ log' = log \o [i \in 1..Len(settled.value.issues) |->
                                     Request("comments", i,
                                             settled.value.issues[i].key)]
                 /\ pc' = "ec_join"
                 /\ UNCHANGED result
  /\ UNCHANGED <<op, arg, order>>

\* A faulty variant of EcSettleComments: every callback pushes its record on
\* a shared array when its comment request is answered, and that array is
\* returned, so that the records come in the order of the answers.
EcSettleCommentsPushing ==
  /\ op = "getEpicChildren"
  /\ \E i \in 1..Len(cnet) :
       /\ cnet[i] = Pending
       /\ \E response \in {Ok(b) : b \in SampleComments} \cup Failures :
            /\ cnet' = [cnet EXCEPT ![i] = response]
            /\ order' = Append(order, i)
            /\ \E promises \in
                 {[parts EXCEPT ![i] = EcChild(net.search.body.issues[i],
                                               fetchJson(response))]} :
                 /\ parts' = promises
                 /\ IF pc = "ec_join"
                    THEN \E all \in {PromiseAll(promises, i)} :
                           IF all.kind = "rejected"
                           THEN result' = Thrown(all.error) /\ pc' = "done"
                           ELSE IF all.kind = "fulfilled"
                           THEN /\ result' =
                                     Returned([k \in 1..Len(promises) |->
                                                 promises[Append(order, i)[k]].value])
                                /\ pc' = "done"
                           ELSE UNCHANGED <<pc, result>>
                    ELSE UNCHANGED <<pc, result>>
  /\ UNCHANGED <<op, arg, net, log>>

\* Lines 309-332: the comment request of record i settles and its callback
\* runs on. While Promise.all is pending, the operation goes on with what it
\* settles to; after it has rejected, the other callbacks still run,
\* unobserved.
EcSettleComments ==
  /\ op = "getEpicChildren"
  /\ \E i \in 1..Len(cnet) :
       /\ cnet[i] = Pending
       /\ \E response \in {Ok(b) : b \in SampleComments} \cup Failures :
            /\ cnet' = [cnet EXCEPT ![i] = response]
            /\ order' = Append(order, i)
            /\ \E promises \in
                 {[parts EXCEPT ![i] = EcChild(net.search.body.issues[i],
                                               fetchJson(response))]} :
                 /\ parts' = promises
                 /\ IF pc = "ec_join"
                    THEN \E all \in {PromiseAll(promises, i)} :
                           IF all.kind = "rejected"
                           THEN result' = Thrown(all.error) /\ pc' = "done"
                           ELSE IF all.kind = "fulfilled"
                           THEN result' = Returned(all.value) /\ pc' = "done"
                           ELSE UNCHANGED <<pc, result>>
                    ELSE UNCHANGED <<pc, result>>
  /\ UNCHANGED <<op, arg, net, log>>

(***************************************************************************)
(* findStoryPointsField.                                                   *)
(***************************************************************************)
\* issueKey.split('-')[0] of line 704: what comes before the first dash, the
\* whole key when it has none.
ProjectKeyOf(issueKey) ==
  LET dashes == {i \in 1..Len(issueKey) : issueKey[i] = "-"}
  IN  IF dashes = {} THEN issueKey
      ELSE SubSeq(issueKey, 1, (CHOOSE i \in dashes : \A j \in dashes : i <= j) - 1)

\* The arguments discovery runs with: its own, or those line 707 of
\* updateStoryPoints passes.
FsProjectKey ==
  IF op = "updateStoryPoints" THEN ProjectKeyOf(arg.issueKey) ELSE arg.projectKey

FsIssueType ==
  IF op = "updateStoryPoints" THEN NameStory ELSE arg.issueType

\* The Error of line 710.
UsNotFound(projectKey) ==
  [name |-> "Error",
   message |-> <<"Story points field not found for project ", projectKey,
                 ". Please check if story points are configured for this project and issue type.">>]

\* The PUT of updateIssue (lines 425-429) with the fields object of lines
\* 714-716.
PutRequest(issueKey, fieldId, storyPoints) ==
  [req |-> "put", idx |-> 0, key |-> issueKey,
   body |-> [fields |-> (fieldId :> storyPoints)]]

\* How the promise of updateIssue settles for a response (lines 425-435): the
\* body of a successful response is not read.
updateIssue(response) ==
  IF response.kind = "ok" THEN [kind |-> "fulfilled", value |-> Undefined]
  ELSE fetchJson(response)

\* A faulty variant of UsContinue: an unresolved field is replaced by the
\* usual identifier and the update goes on.
UsContinueDefaulting(fieldId, n1) ==
  /\ net' = [n1 EXCEPT !.put = Pending]
  /\ log' = Append(log, PutRequest(arg.issueKey,
                                   IF fieldId \in {Null, ""}
                                   THEN "customfield_10016" ELSE fieldId,
                                   arg.storyPoints))
  /\ pc' = "us_put"
  /\ UNCHANGED result

\* Lines 709-718 of updateStoryPoints, run when discovery has returned
\* fieldId, the requests being in state n1: a falsy identifier throws,
\* another one is put.
UsContinue(fieldId, n1) ==
  IF fieldId \in {Null, ""}
  THEN /\ result' = Thrown(UsNotFound(ProjectKeyOf(arg.issueKey)))
       /\ pc' = "done"
       /\ net' = n1
       /\ UNCHANGED log
  ELSE /\ net' = [n1 EXCEPT !.put = Pending]
       /\ log' = Append(log, PutRequest(arg.issueKey, fieldId, arg.storyPoints))
       /\ pc' = "us_put"
       /\ UNCHANGED result

\* A faulty variant of FsCatch: the catch clause rethrows.
FsCatchRethrows(error, n1) ==
  /\ result' = Thrown(error)
  /\ pc' = "done"
  /\ net' = n1
  /\ UNCHANGED log

\* Discovery returns fieldId, the requests being in state n1: to the caller,
\* or into updateStoryPoints.
FsReturn(fieldId, n1) ==
  IF op = "updateStoryPoints" THEN UsContinue(fieldId, n1)
  ELSE /\ result' = Returned(fieldId)
       /\ pc' = "done"
       /\ net' = n1
       /\ UNCHANGED log

\* Lines 690-693: the catch clause of discovery, for the error of a rejected
\* request.
FsCatch(error, n1) == FsReturn(Null, n1)

\* Line 632: the creation metadata is requested and awaited.
FsCall ==
  /\ pc = "idle"
  /\ arg' = [projectKey |-> <<"A","C","I">>, issueType |-> NameStory]
  /\ op' = "findStoryPointsField"
  /\ net' = [net EXCEPT !.meta = Pending]
  /\ log' = <<Request("meta", 0, <<"A","C","I">>)>>
  /\ pc' = "fs_meta"
  /\ UNCHANGED <<cnet, parts, result, order>>

\* Lines 632-672: a failed metadata request is caught and gives null; a
\* metadata match is returned; otherwise the search is issued.
FsSettleMeta ==
  /\ pc = "fs_meta"
  /\ net.meta = Pending
  /\ \E response \in {Ok(b) : b \in SampleMetas} \cup Failures :
       \E settled \in {fetchJson(response)} :
         IF settled.kind = "rejected"
         THEN FsCatch(settled.error, [net EXCEPT !.meta = response])
         ELSE \E found \in {MetaStep(settled.value, FsIssueType)} :
                IF found # <<>>
                THEN FsReturn(found[1], [net EXCEPT !.meta = response])
                ELSE /\ net' = [net EXCEPT !.meta = response,
                                           !.search = Pending]
                     /\ log' = Append(log, Request("search", 0, FsProjectKey))
                     /\ pc' = "fs_search"
                     /\ UNCHANGED result
  /\ UNCHANGED <<op, arg, cnet, parts, order>>

\* Lines 672-677: a failed search gives null, an empty one too; otherwise the
\* first record found is probed.
FsSettleSearch ==
  /\ pc = "fs_search"
  /\ net.search = Pending
  /\ \E response \in {Ok(b) : b \in SampleSearches} \cup Failures :
       \E settled \in {fetchJson(response)} :
         IF settled.kind = "rejected"
         THEN FsCatch(settled.error, [net EXCEPT !.search = response])
         ELSE IF Len(searchIssues(settled.value).issues) = 0
         THEN FsReturn(Null, [net EXCEPT !.search = response])
         ELSE /\ net' = [net EXCEPT !.search = response, !.probe = Pending]
              /\ log' = Append(log,
                               Request("probe", 0,
                                       searchIssues(settled.value).issues[1].key))
              /\ pc' = "fs_probe"
              /\ UNCHANGED result
  /\ UNCHANGED <<op, arg, cnet, parts, order>>

\* Lines 677-693: a failed probe gives null; otherwise the shortlist is
\* checked against the probed record's field-name map.
FsSettleProbe ==
  /\ pc = "fs_probe"
  /\ net.probe = Pending
  /\ \E response \in {Ok(b) : b \in SampleProbes} \cup Failures :
       \E settled \in {fetchJson(response)} :
         IF settled.kind = "rejected"
         THEN FsCatch(settled.error, [net EXCEPT !.probe = response])
         ELSE FsReturn(ProbeStep(settled.value),
                       [net EXCEPT !.probe = response])
  /\ UNCHANGED <<op, arg, cnet, parts, order>>

(***************************************************************************)
(* updateStoryPoints.                                                      *)
(***************************************************************************)
\* The issue keys updateStoryPoints is called with, and the values.
UsIssueKeys == { <<"A","C","I","-","1","1">>, <<"A","-","B","-","1">> }

StoryPointValues == {5}

\* Lines 704-707: discovery is called for the project of the issue key and
\* requests the creation metadata.
UsCall ==
  /\ pc = "idle"
  /\ \E issueKey \in UsIssueKeys, storyPoints \in StoryPointValues :
       /\ arg' = [issueKey |-> issueKey, storyPoints |-> storyPoints]
       /\ log' = <<Request("meta", 0, ProjectKeyOf(issueKey))>>
  /\ op' = "updateStoryPoints"
  /\ net' = [net EXCEPT !.meta = Pending]
  /\ pc' = "fs_meta"
  /\ UNCHANGED <<cnet, parts, result, order>>

\* A faulty variant of UsSettlePut: a failed update is attempted a second time
\* before the failure is thrown.
UsSettlePutRetrying ==
  /\ pc = "us_put"
  /\ net.put = Pending
  /\ \E response \in {Ok(Undefined)} \cup Failures :
       IF Failed(response) /\ log[Len(log) - 1].req # "put"
       THEN /\ log' = Append(log, log[Len(log)])
            /\ UNCHANGED <<net, pc, result>>
       ELSE /\ net' = [net EXCEPT !.put = response]
            /\ \E settled \in {updateIssue(response)} :
                 result' = IF settled.kind = "rejected"
                           THEN Thrown(settled.error)
                           ELSE Returned(settled.value)
            /\ pc' = "done"
            /\ UNCHANGED log
  /\ UNCHANGED <<op, arg, cnet, parts, order>>

\* Line 718: the update settles.
UsSettlePut ==
  /\ pc = "us_put"
  /\ net.put = Pending
  /\ \E response \in {Ok(Undefined)} \cup Failures :
       /\ net' = [net EXCEPT !.put = response]
       /\ \E settled \in {updateIssue(response)} :
            result' = IF settled.kind = "rejected" THEN Thrown(settled.error)
                      ELSE Returned(settled.value)
  /\ pc' = "done"
  /\ UNCHANGED <<op, arg, cnet, parts, log, order>>

Next ==
  \/ CleanCommentStep
  \/ CleanIssueStep
  \/ GiCall
  \/ GiSettleIssue
  \/ GiSettleComments
  \/ GiSettleEpic
  \/ EcCall
  \/ EcSettleSearch
  \/ EcSettleComments
  \/ FsCall
  \/ FsSettleMeta
  \/ FsSettleSearch
  \/ FsSettleProbe
  \/ UsCall
  \/ UsSettlePut

Spec == Init /\ [][Next]_vars

(***************************************************************************)
(* Properties of getIssueWithComments.                                     *)
(***************************************************************************)
InGi == op = "getIssueWithComments"

\* The domain failure of line 362 for the called issueId.
IssueNotFound == Thrown([name |-> "Error",
                         message |-> <<"Issue not found: ", arg>>])

IsNotFound(r) == r.kind = "http" /\ r.status = 404

\* C1: in getIssueWithComments, whenever the record fetch has returned a 404
\* status and the caller has received something, what it received is the
\* domain failure "Issue not found: <issueId>", whatever the comments fetch
\* did and in whatever order the two settled.
C1_RecordNotFoundIsDomainFailure ==
  (InGi /\ IsNotFound(net.issue) /\ result # NoResult)
    => result = IssueNotFound

\* C2: in getIssueWithComments, when both primary fetches succeeded, the
\* record carries an epicLink and the epic follow-up has failed (with any
\* status), the operation returns the record exactly as assembled from the
\* two primary answers, with epicLink.summary unset.
C2_EpicFailureIsSwallowed ==
  (InGi /\ Failed(net.epic))
    => /\ pc = "done"
       /\ result = Returned(Assemble(net.issue.body, net.comments.body))
       /\ "epicLink" \in DOMAIN result.value
       /\ "summary" \notin DOMAIN result.value.epicLink
       /\ "comments" \in DOMAIN result.value

\* A record was returned although the epic follow-up answered 404.
C2_Witness ==
  /\ InGi
  /\ IsNotFound(net.epic)
  /\ result.kind = "value"
  /\ Len(result.value.comments) = 2

\* C4: in getIssueWithComments, once either primary fetch has failed the
\* operation has failed, and a record is returned only when both primary
\* fetches succeeded.
C4_PrimaryFailureFailsOperation ==
  InGi =>
    /\ (Failed(net.issue) \/ Failed(net.comments)) => result.kind = "error"
    /\ result.kind = "value" => net.issue.kind = "ok" /\ net.comments.kind = "ok"

\* The record fetch succeeded, the comments fetch failed, and the operation
\* failed.
C4_Witness ==
  /\ InGi
  /\ net.issue.kind = "ok"
  /\ Failed(net.comments)
  /\ result.kind = "error"

(***************************************************************************)
(* Properties of getEpicChildren and of the merge of both aggregates.      *)
(***************************************************************************)
InEc == op = "getEpicChildren"

\* C3: in getEpicChildren, once the search or any comment fetch has failed
\* the operation has failed, and a list is returned only when the search and
\* every comment fetch succeeded.
C3_AnyFailureAbortsEpicChildren ==
  InEc =>
    /\ (Failed(net.search) \/ \E i \in 1..Len(cnet) : Failed(cnet[i]))
         => result.kind = "error"
    /\ result.kind = "value"
         => /\ net.search.kind = "ok"
            /\ Len(cnet) = Len(net.search.body.issues)
            /\ \A i \in 1..Len(cnet) : cnet[i].kind = "ok"

\* One comment fetch succeeded, another failed, and no list was returned.
C3_Witness ==
  /\ InEc
  /\ \E i, j \in 1..Len(cnet) : cnet[i].kind = "ok" /\ Failed(cnet[j])
  /\ result.kind = "error"

RECURSIVE ConcatAll(_)
\* The concatenation of a sequence of sequences.
ConcatAll(ss) == IF ss = <<>> THEN <<>> ELSE Head(ss) \o ConcatAll(Tail(ss))

\* What the merge is claimed to give for a raw record and its raw comments:
\* the normalizer's list, then each comment's extracted mentions in comment
\* order.
MergedRelationships(issueData, commentsData) ==
  cleanIssue(issueData).relatedIssues
    \o ConcatAll([i \in 1..Len(commentsData.comments) |->
                    cleanComment(commentsData.comments[i]).mentions])

\* C5: in both aggregates the relationship list of a returned record is the
\* normalizer's list followed by the mention lists of its comments in comment
\* order, with nothing removed or collapsed.
C5_MergeAppendsWithoutDedup ==
  /\ (InGi /\ result.kind = "value")
       => result.value.relatedIssues
            = MergedRelationships(net.issue.body, net.comments.body)
  /\ (InEc /\ result.kind = "value")
       => \A i \in 1..Len(result.value) :
            result.value[i].relatedIssues
              = MergedRelationships(net.search.body.issues[i], cnet[i].body)

\* The keys of a relationship list.
KeysOf(related) == [i \in 1..Len(related) |-> related[i].key]

\* A record whose narrative mentions A-1 and whose comments mention [A-1] and
\* [B-2, A-1] is returned by both aggregates with A-1 three times in its list.
C5_Witness ==
  /\ result.kind = "value"
  /\ \/ InGi /\ KeysOf(result.value.relatedIssues)
                  = <<KeyA1, KeyC3, KeyA1, KeyB2, KeyA1>>
     \/ InEc /\ \E i \in 1..Len(result.value) :
                  KeysOf(result.value[i].relatedIssues)
                    = <<KeyA1, KeyC3, KeyA1, KeyB2, KeyA1>>

(***************************************************************************)
(* Properties of the extractors and of the record normalizer.              *)
(***************************************************************************)
RECURSIVE NodesInOrder(_, _)
\* The nodes of a forest in document order, a node before its children. The
\* child list of a text node is followed only when belowText holds.
NodesInOrder(content, belowText) ==
  IF content = <<>> THEN <<>>
  ELSE LET node == Head(content)
       IN  <<node>>
             \o (IF "content" \in DOMAIN node
                      /\ (belowText \/ node.type # "text")
                 THEN NodesInOrder(node.content, belowText)
                 ELSE <<>>)
             \o NodesInOrder(Tail(content), belowText)

\* The identifiers one node gives: the one of its URL when it is an
\* inlineCard, the pattern matches of its text when it is a text node.
KeysOfNode(node) ==
  (IF node.type = "inlineCard" /\ "attrs" \in DOMAIN node
        /\ "url" \in DOMAIN node.attrs
   THEN MatchBrowse(node.attrs.url) ELSE <<>>)
    \o (IF node.type = "text" /\ "text" \in DOMAIN node
        THEN MatchAllKeys(node.text) ELSE <<>>)

\* The identifiers found during the walk of a forest, in document order.
WalkKeys(content) ==
  LET nodes == NodesInOrder(content, TRUE)
  IN  ConcatAll([i \in 1..Len(nodes) |-> KeysOfNode(nodes[i])])

\* The position of the first occurrence of k in ks.
FirstPos(ks, k) == CHOOSE i \in 1..Len(ks) : ks[i] = k /\ \A j \in 1..(i - 1) : ks[j] # k

\* Whether mentions holds each identifier of the walk ks exactly once, in the
\* order of first occurrence, each with the given origin and comment id.
IsDedupOf(mentions, ks, source, commentId) ==
  /\ {mentions[i].key : i \in 1..Len(mentions)} = {ks[i] : i \in 1..Len(ks)}
  /\ \A i, j \in 1..Len(mentions) :
       i < j => FirstPos(ks, mentions[i].key) < FirstPos(ks, mentions[j].key)
  /\ \A i \in 1..Len(mentions) :
       mentions[i] = MentionEntry(mentions[i].key, source, commentId)

\* C6: the mentions extracted from a document hold each identifier found
\* during the walk (text matches and inlineCard URLs together) exactly once,
\* ordered by first occurrence in document order, with the kind, origin and
\* comment id of the extraction (those of its last occurrence).
C6_MentionsDedupFirstOccurrenceOrder ==
  /\ (op = "cleanComment" /\ "body" \in DOMAIN arg)
       => IsDedupOf(result.value.mentions, WalkKeys(arg.body.content),
                    "comment", arg.id)
  /\ (op = "cleanIssue" /\ "description" \in DOMAIN arg.fields
        /\ "issuelinks" \notin DOMAIN arg.fields)
       => IsDedupOf(result.value.relatedIssues,
                    WalkKeys(arg.fields.description.content),
                    "description", Undefined)

\* A document whose walk finds A-1, then B-2 twice, then A-1 again gave the
\* mentions A-1, B-2.
C6_Witness ==
  /\ op = "cleanComment"
  /\ "body" \in DOMAIN arg
  /\ WalkKeys(arg.body.content) = <<KeyA1, KeyB2, KeyB2, KeyA1>>
  /\ KeysOf(result.value.mentions) = <<KeyA1, KeyB2>>

\* The text payloads of the text nodes among nodes, concatenated.
TextsOf(nodes) ==
  ConcatAll([i \in 1..Len(nodes) |->
               IF nodes[i].type = "text" /\ "text" \in DOMAIN nodes[i]
               THEN nodes[i].text ELSE <<>>])

\* C7 as stated: the extracted text is the concatenation, in document order,
\* of the text of every text node reachable through the child list of any
\* node, whatever that node's type.
C7_TextOfAllReachableTextNodes ==
  (op = "cleanComment" /\ "body" \in DOMAIN arg)
    => result.value.body = TextsOf(NodesInOrder(arg.body.content, TRUE))

\* C7 amended: the extracted text is the concatenation, in document order
\* and without separators, of the text of every text node reachable through
\* the child lists of nodes that are not text nodes; the child list of a text
\* node is not followed, and other nodes give the empty string.
C7_TextOfTextNodesNotBelowText ==
  (op = "cleanComment" /\ "body" \in DOMAIN arg)
    => result.value.body = TextsOf(NodesInOrder(arg.body.content, FALSE))

\* A text node below a container and a text node below a text node: the
\* first gives its text, the second does not.
C7_Witness ==
  /\ op = "cleanComment"
  /\ "body" \in DOMAIN arg
  /\ arg.body.content
       = <<[type |-> "paragraph",
            content |-> <<[type |-> "text", text |-> TextB2A1,
                           content |-> <<[type |-> "text",
                                          text |-> KeyA1]>>]>>]>>
  /\ result.value.body = TextB2A1

\* C8: the relationship list of a normalized record is the deduplicated
\* narrative mentions in traversal order, then one entry of kind "link" per
\* structured link in link order with the linked record's key; the links are
\* appended whether or not there are mentions and are not merged with them.
C8_LinksAppendedAfterMentions ==
  op = "cleanIssue" =>
    LET f == arg.fields
        ks == IF "description" \in DOMAIN f
              THEN WalkKeys(f.description.content) ELSE <<>>
        links == IF "issuelinks" \in DOMAIN f THEN f.issuelinks ELSE <<>>
        related == result.value.relatedIssues
        n == Len(related) - Len(links)
    IN  /\ n >= 0
        /\ IsDedupOf(SubSeq(related, 1, n), ks, "description", Undefined)
        /\ \A i \in 1..Len(links) :
             /\ related[n + i].type = "link"
             /\ related[n + i].key
                  = IF "inwardIssue" \in DOMAIN links[i]
                    THEN links[i].inwardIssue.key
                    ELSE links[i].outwardIssue.key

\* Narrative mentions B-2 and A-1 with links to C-3 and to A-1 give exactly
\* [B-2, A-1, C-3, A-1].
C8_Witness ==
  /\ op = "cleanIssue"
  /\ KeysOf(result.value.relatedIssues) = <<KeyB2, KeyA1, KeyC3, KeyA1>>
  /\ [i \in 1..4 |-> result.value.relatedIssues[i].type]
       = <<"mention", "mention", "link", "link">>

(***************************************************************************)
(* Properties of findStoryPointsField.                                     *)
(***************************************************************************)
InFs == op = "findStoryPointsField"

\* The field list of the issue type the metadata step settles on: the first
\* issue type of the first project whose name equals the requested one up to
\* case. The empty list when there is none.
MatchedFieldList(createMeta) ==
  IF "projects" \in DOMAIN createMeta /\ createMeta.projects # <<>>
       /\ "issuetypes" \in DOMAIN createMeta.projects[1]
  THEN LET its == createMeta.projects[1].issuetypes
           same == {i \in 1..Len(its) :
                      ToLowerCase(its[i].name) = ToLowerCase(FsIssueType)}
       IN  IF same = {} THEN <<>>
           ELSE LET it == its[CHOOSE i \in same : \A j \in same : i <= j]
                IN  IF "fields" \in DOMAIN it THEN it.fields ELSE <<>>
  ELSE <<>>

NameStoryPointEstimate == <<"S","t","o","r","y"," ","P","o","i","n","t"," ","E","s","t","i","m","a","t","e">>

\* The metadata has been answered and the matched field list holds a field
\* named "Story Point Estimate" at index i.
HoldsEstimateFieldAt(i) ==
  /\ InFs
  /\ net.meta.kind = "ok"
  /\ i \in 1..Len(MatchedFieldList(net.meta.body))
  /\ "name" \in DOMAIN MatchedFieldList(net.meta.body)[i]
  /\ MatchedFieldList(net.meta.body)[i].name = NameStoryPointEstimate

\* C9 as stated: when the matched issue type's field list holds a field named
\* "Story Point Estimate", findStoryPointsField returns that field's
\* identifier, whatever the other fields and their order.
C9_EstimateFieldAlwaysReturned ==
  \A i \in 1..(MaxFields + 1) :
    HoldsEstimateFieldAt(i)
      => result = Returned(MatchedFieldList(net.meta.body)[i].id)

\* C9 amended: when the matched issue type's field list holds a field named
\* "Story Point Estimate", findStoryPointsField returns the identifier of the
\* first field of the list, in metadata order, whose lowercased name contains
\* one of the fixed substrings; that is the "Story Point Estimate" field
\* exactly when no field before it has such a name.
C9_FirstMatchingFieldReturned ==
  \A i \in 1..(MaxFields + 1) :
    HoldsEstimateFieldAt(i)
      => LET fl == MatchedFieldList(net.meta.body)
             first == CHOOSE k \in 1..i :
                        /\ NameMatches(fl[k])
                        /\ \A j \in 1..(k - 1) : ~NameMatches(fl[j])
         IN  /\ result = Returned(fl[first].id)
             /\ pc = "done"
             /\ (first = i) <=> (\A j \in 1..(i - 1) : ~NameMatches(fl[j]))

\* The "Story Point Estimate" field comes second, after a field whose name
\* matches nothing, and its identifier is returned.
C9_Witness ==
  /\ HoldsEstimateFieldAt(2)
  /\ ~NameMatches(MatchedFieldList(net.meta.body)[1])
  /\ result = Returned("customfield_10016")

NameStoryPoints == <<"S","t","o","r","y"," ","P","o","i","n","t","s">>

\* The probed record has been fetched and its field-name map resolves
\* customfield_10016 to "Story Points".
ProbeResolves10016 ==
  /\ InFs
  /\ net.probe.kind = "ok"
  /\ "names" \in DOMAIN net.probe.body
  /\ "customfield_10016" \in DOMAIN net.probe.body.names
  /\ net.probe.body.names.customfield_10016 = NameStoryPoints

\* The probed record's field-name map resolves customfield_10002, the one
\* shortlist identifier tried before customfield_10016, to a name that
\* contains both "story" and "point".
ProbeAccepts10002 ==
  /\ "customfield_10002" \in DOMAIN net.probe.body.names
  /\ Includes(ToLowerCase(net.probe.body.names.customfield_10002), <<"s","t","o","r","y">>)
  /\ Includes(ToLowerCase(net.probe.body.names.customfield_10002), <<"p","o","i","n","t">>)

\* C10 as stated: when the metadata step yields no match and the probed
\* record's field-name map resolves customfield_10016 to "Story Points",
\* findStoryPointsField returns "customfield_10016" whatever else the map
\* holds.
C10_Probe10016AlwaysReturned ==
  ProbeResolves10016 => result = Returned("customfield_10016")

\* C10 amended: in that case findStoryPointsField returns "customfield_10016"
\* unless the map also resolves customfield_10002 to a name containing both
\* "story" and "point", in which case it returns "customfield_10002".
C10_Probe10016ReturnedUnless10002 ==
  ProbeResolves10016
    => /\ pc = "done"
       /\ result = Returned(IF ProbeAccepts10002 THEN "customfield_10002"
                            ELSE "customfield_10016")

\* The map resolves customfield_10016 to "Story Points", customfield_10002 to
\* "Sprint" and holds another entry, and "customfield_10016" is returned.
C10_Witness ==
  /\ ProbeResolves10016
  /\ DOMAIN net.probe.body.names
       = {"customfield_10002", "customfield_10016", "summary"}
  /\ ~ProbeAccepts10002
  /\ result = Returned("customfield_10016")

\* The identifier id is a key of the matched issue type's metadata field list
\* whose name contains one of the fixed substrings.
IsMatchingMetadataField(id) ==
  /\ net.meta.kind = "ok"
  /\ \E i \in 1..Len(MatchedFieldList(net.meta.body)) :
       /\ MatchedFieldList(net.meta.body)[i].id = id
       /\ NameMatches(MatchedFieldList(net.meta.body)[i])

\* The identifier id is on the shortlist and the probed record's field-name
\* map resolves it to a name that contains both "story" and "point".
IsAcceptedShortlistField(id) ==
  /\ net.probe.kind = "ok"
  /\ \E k \in 1..Len(commonStoryPointsFields) : commonStoryPointsFields[k] = id
  /\ "names" \in DOMAIN net.probe.body
  /\ id \in DOMAIN net.probe.body.names
  /\ Includes(ToLowerCase(net.probe.body.names[id]), <<"s","t","o","r","y">>)
  /\ Includes(ToLowerCase(net.probe.body.names[id]), <<"p","o","i","n","t">>)

\* C11: findStoryPointsField never fabricates an identifier. What it returns
\* is null, or a key of the matched issue type's metadata field list whose
\* name contains one of the fixed substrings, or a shortlist identifier that
\* the probed record's field-name map resolves to a name containing both
\* "story" and "point"; it never throws.
C11_NeverFabricatesAnIdentifier ==
  (InFs /\ pc = "done")
    => /\ result.kind = "value"
       /\ \/ result.value = Null
          \/ IsMatchingMetadataField(result.value)
          \/ IsAcceptedShortlistField(result.value)

\* Discovery has returned a shortlist identifier that the metadata did not
\* give and the probed record's field-name map did.
C11_Witness ==
  /\ InFs
  /\ pc = "done"
  /\ result = Returned("customfield_10016")
  /\ ~IsMatchingMetadataField("customfield_10016")
  /\ IsAcceptedShortlistField("customfield_10016")

(***************************************************************************)
(* Properties of updateStoryPoints.                                        *)
(***************************************************************************)
InUs == op = "updateStoryPoints"

\* Discovery has returned to its caller.
DiscoveryOver == pc \notin {"idle", "fs_meta", "fs_search", "fs_probe"}

\* What discovery yields for the responses it got: the first field of the
\* matched list with a matching name, else the first shortlist identifier the
\* probed record accepts, else null.
DiscoveredId ==
  LET fl == IF net.meta.kind = "ok" THEN MatchedFieldList(net.meta.body)
            ELSE <<>>
      hits == {i \in 1..Len(fl) : NameMatches(fl[i])}
      short == {k \in 1..Len(commonStoryPointsFields) :
                  IsAcceptedShortlistField(commonStoryPointsFields[k])}
  IN  IF hits # {} THEN fl[CHOOSE i \in hits : \A j \in hits : i <= j].id
      ELSE IF short # {}
      THEN commonStoryPointsFields[CHOOSE k \in short : \A j \in short : k <= j]
      ELSE Null

\* The update requests issued so far.
PutsIssued == {i \in 1..Len(log) : log[i].req = "put"}

\* C12: in updateStoryPoints, when discovery yields not found the operation
\* fails with an error whose message names the project key derived from the
\* issue key and no update request is issued; an update request is issued
\* only once discovery has returned an identifier that is not null, for the
\* issue of the call, and it sets exactly that one field to the given value.
C12_UpdateFailsHardWithoutField ==
  InUs =>
    /\ (DiscoveryOver /\ DiscoveredId = Null)
         => /\ PutsIssued = {}
            /\ net.put = NotSent
            /\ result.kind = "error"
            /\ Len(result.error.message) = 3
            /\ result.error.message[1]
                 = "Story points field not found for project "
            /\ result.error.message[2] = ProjectKeyOf(arg.issueKey)
    /\ \A i \in PutsIssued :
         /\ DiscoveryOver
         /\ DiscoveredId # Null
         /\ log[i].key = arg.issueKey
         /\ DOMAIN log[i].body.fields = {DiscoveredId}
         /\ log[i].body.fields[DiscoveredId] = arg.storyPoints

\* Discovery went as far as the probe and yielded not found, and the update
\* of "A-B-1" has failed naming project "A".
C12_Witness ==
  /\ InUs
  /\ arg.issueKey = <<"A","-","B","-","1">>
  /\ net.probe.kind = "ok"
  /\ DiscoveredId = Null
  /\ result = Thrown(UsNotFound(<<"A">>))
  /\ PutsIssued = {}

(***************************************************************************)
(* Properties of all the operations: failures and requests.                *)
(***************************************************************************)
\* The error that the promise of a failed request rejects with.
ErrorOf(r) == fetchJson(r).error

\* The requests whose failure the epic-summary enrichment does not tolerate:
\* all the named ones but the follow-up, and the comment requests of
\* getEpicChildren.
HardRequests == Requests \ {"epic"}

SomeRequestFailed ==
  \/ \E r \in HardRequests : Failed(net[r])
  \/ \E i \in 1..Len(cnet) : Failed(cnet[i])

\* The caller has received the error of the failed request r, or what the
\* catch clause of getIssueWithComments makes of it.
CarriesFailureOf(r) ==
  /\ Failed(r)
  /\ \/ result.error = ErrorOf(r)
     \/ InGi /\ result.error = GiCatch(ErrorOf(r), arg)

\* The caller has received the error of one of the failed requests.
FailurePropagated ==
  /\ result.kind = "error"
  /\ \/ \E r \in HardRequests : CarriesFailureOf(net[r])
     \/ \E i \in 1..Len(cnet) : CarriesFailureOf(cnet[i])

DiscoveryRequestFailed ==
  /\ op \in {"findStoryPointsField", "updateStoryPoints"}
  /\ \E r \in {"meta", "search", "probe"} : Failed(net[r])

AttemptsOf(req, idx) ==
  {i \in 1..Len(log) : log[i].req = req /\ log[i].idx = idx}

\* C14: within one operation every request is attempted at most once. No two
\* fetch calls are made for the same request, and a request that has failed
\* has been attempted exactly once, in getIssueWithComments, getEpicChildren,
\* findStoryPointsField and updateStoryPoints alike.
C14_EachRequestAttemptedOnce ==
  /\ \A i, j \in 1..Len(log) :
       (log[i].req = log[j].req /\ log[i].idx = log[j].idx) => i = j
  /\ \A r \in Requests :
       /\ net[r] = NotSent => AttemptsOf(r, 0) = {}
       /\ Failed(net[r]) => Cardinality(AttemptsOf(r, 0)) = 1
  /\ \A k \in 1..Len(cnet) :
       Failed(cnet[k]) => Cardinality(AttemptsOf("comments", k)) = 1

\* In getEpicChildren the comment request of the first of two records has
\* failed, the operation has failed, and that request was made once.
C14_Witness ==
  /\ op = "getEpicChildren"
  /\ Len(cnet) = 2
  /\ Failed(cnet[1])
  /\ result.kind = "error"
  /\ Cardinality(AttemptsOf("comments", 1)) = 1

(***************************************************************************)
(* Properties of cleanIssue.                                               *)
(***************************************************************************)
InCleanIssue == op = "cleanIssue"

\* The raw payload holds the field, with whatever value.
InPayload(field) == field \in DOMAIN arg.fields

\* The normalized record holds the field.
Emitted(field) == field \in DOMAIN result.value

\* None of the optional fields emitted is null.
NoNullEmitted ==
  /\ Emitted("storyPoints") => result.value.storyPoints # "null"
  /\ Emitted("parent") => result.value.parent # JsNull
  /\ Emitted("epicLink") => result.value.epicLink # JsNull
  /\ Emitted("children") => result.value.children # JsNull

\* C15 as stated: each of storyPoints, parent, epicLink and children is in
\* the result of cleanIssue exactly when the corresponding field is in the
\* raw payload, never with a null value, and storyPoints is the payload's
\* value unchanged.
C15_OptionalFieldsIffInPayload ==
  InCleanIssue =>
    /\ Emitted("storyPoints") <=> InPayload("customfield_10016")
    /\ Emitted("parent") <=> InPayload("parent")
    /\ Emitted("epicLink") <=> InPayload("customfield_10014")
    /\ Emitted("children") <=> InPayload("subtasks")
    /\ NoNullEmitted
    /\ Emitted("storyPoints")
         => result.value.storyPoints = arg.fields.customfield_10016

\* C15 amended: storyPoints is in the result exactly when the payload holds
\* customfield_10016, null included, and is the payload's value unchanged, a
\* null too; parent is in the result exactly when the payload's parent is
\* present and not null; epicLink exactly when customfield_10014 is present
\* and neither null nor empty; children exactly when subtasks is present and
\* not empty. parent, epicLink and children are never emitted null or empty.
C15_OptionalFieldsIffUsable ==
  InCleanIssue =>
    /\ Emitted("storyPoints") <=> InPayload("customfield_10016")
    /\ Emitted("storyPoints")
         => result.value.storyPoints = arg.fields.customfield_10016
    /\ Emitted("parent")
         <=> (InPayload("parent") /\ arg.fields.parent # JsNull)
    /\ Emitted("epicLink")
         <=> (InPayload("customfield_10014")
                /\ arg.fields.customfield_10014 # JsNull)
    /\ Emitted("children")
         <=> (InPayload("subtasks") /\ Len(arg.fields.subtasks) > 0)
    /\ Emitted("parent") => result.value.parent # JsNull
    /\ Emitted("epicLink") => result.value.epicLink # JsNull
    /\ Emitted("children") => result.value.children # JsNull

\* A payload with story points 5, a null parent, an epic reference and an
\* empty list of subtasks gives storyPoints 5 and epicLink, and neither parent
\* nor children.
C15_Witness ==
  /\ InCleanIssue
  /\ InPayload("customfield_10016")
  /\ InPayload("parent")
  /\ InPayload("customfield_10014")
  /\ InPayload("subtasks")
  /\ result.value.storyPoints = "5"
  /\ Emitted("epicLink")
  /\ ~Emitted("parent")
  /\ ~Emitted("children")

(***************************************************************************)
(* Further properties of getIssueWithComments.                             *)
(***************************************************************************)
\* C16: getIssueWithComments gives the domain failure "Issue not found:
\* <issueId>" only when the record fetch itself was answered 404: once the
\* record fetch has been answered, the caller holds the domain failure only
\* if that answer was a 404, whatever the comments fetch and the epic
\* follow-up were answered.
C16_DomainFailureOnlyForRecordNotFound ==
  (InGi /\ result = IssueNotFound /\ net.issue # Pending)
    => IsNotFound(net.issue)

\* C17: in getIssueWithComments the epic-summary follow-up is requested at
\* most once, after both primary requests, only when both have been answered
\* successfully and the record assembled from them carries an epicLink, whose
\* key it asks for; it is never requested while a primary request is pending
\* or after one has failed.
C17_FollowUpOnlyAfterSuccessfulJoin ==
  InGi =>
    /\ Cardinality(AttemptsOf("epic", 0)) <= 1
    /\ (net.epic # NotSent) <=> (AttemptsOf("epic", 0) # {})
    /\ \A i \in AttemptsOf("epic", 0) :
         /\ i = 3
         /\ log[1].req = "issue"
         /\ log[2].req = "comments"
         /\ net.issue.kind = "ok"
         /\ net.comments.kind = "ok"
         /\ "epicLink" \in DOMAIN Assemble(net.issue.body, net.comments.body)
         /\ log[i].key
              = Assemble(net.issue.body, net.comments.body).epicLink.key
    /\ (Failed(net.issue) \/ Failed(net.comments)
          \/ net.issue = Pending \/ net.comments = Pending)
         => net.epic = NotSent

\* Both primary requests have been answered, the record refers to epic E-9,
\* and the follow-up for E-9 is in flight.
C17_Witness ==
  /\ InGi
  /\ net.issue.kind = "ok"
  /\ net.comments.kind = "ok"
  /\ net.epic = Pending
  /\ Len(log) = 3
  /\ log[3] = Request("epic", 0, KeyE9)

(***************************************************************************)
(* Further properties of getEpicChildren.                                  *)
(***************************************************************************)
\* C18: in getEpicChildren no comment request is issued before the search
\* has been answered successfully; once it has been answered with N records,
\* the comment requests of all N records have been issued, one per record and
\* for that record's key, in the order of the records, before any response to
\* them is taken, so that a record's comment request is never held back until
\* another one's response has come.
C18_CommentFetchesIssuedTogether ==
  InEc =>
    /\ net.search.kind # "ok" => (cnet = <<>> /\ Len(log) = 1)
    /\ net.search.kind = "ok"
         => /\ Len(cnet) = Len(net.search.body.issues)
            /\ Len(log) = 1 + Len(cnet)
            /\ \A i \in 1..Len(cnet) :
                 /\ cnet[i] # NotSent
                 /\ AttemptsOf("comments", i) = {1 + i}
                 /\ log[1 + i].key = net.search.body.issues[i].key

\* The search has returned records C-3 and A-1 and the comment requests of
\* both are in flight at the same time.
C18_Witness ==
  /\ InEc
  /\ net.search.kind = "ok"
  /\ Len(cnet) = 2
  /\ cnet[1] = Pending
  /\ cnet[2] = Pending
  /\ log[2] = Request("comments", 1, KeyC3)
  /\ log[3] = Request("comments", 2, KeyA1)

(***************************************************************************)
(* Requests that never respond. A request that never responds is pending   *)
(* in every state after it was issued, so that what an operation does as    *)
(* long as it never responds is what holds in the states where it is        *)
(* pending.                                                                 *)
(***************************************************************************)
InAggregate == InGi \/ InEc

SomeRequestPending ==
  \/ \E r \in Requests : net[r] = Pending
  \/ \E i \in 1..Len(cnet) : cnet[i] = Pending

\* C19 as stated: as long as a request issued by getIssueWithComments or
\* getEpicChildren has not responded, the operation has neither returned nor
\* failed, whatever the other requests were answered.
C19_PendingRequestBlocksCompletion ==
  (InAggregate /\ SomeRequestPending) => result = NoResult

\* C19 amended: as long as a request issued by getIssueWithComments or
\* getEpicChildren has not responded, the operation has not returned a
\* result, and it has failed only if another request, issued concurrently
\* with the pending one, has failed, with the failure of such a request; when
\* no other request has failed it has neither returned nor failed.
C19_PendingRequestBlocksUnlessAnotherFails ==
  (InAggregate /\ SomeRequestPending)
    => /\ result.kind # "value"
       /\ result.kind = "error" => FailurePropagated
       /\ ~SomeRequestFailed => result = NoResult

\* In getEpicChildren the comment request of the second record has been
\* answered, that of the first has not, and the operation has not completed.
C19_Witness ==
  /\ InEc
  /\ Len(cnet) = 2
  /\ cnet[1] = Pending
  /\ cnet[2].kind = "ok"
  /\ result = NoResult
  /\ pc = "ec_join"

(***************************************************************************)
(* Further properties of findStoryPointsField.                             *)
(***************************************************************************)
\* The metadata query has been answered and the metadata step finds no
\* identifier in the answer: no project, no issue type of the requested name,
\* no field list, or no field with a matching name.
MetadataGivesNothing ==
  /\ net.meta.kind = "ok"
  /\ \A i \in 1..Len(MatchedFieldList(net.meta.body)) :
       ~NameMatches(MatchedFieldList(net.meta.body)[i])

\* The fallback search has been answered with at least one record.
SearchFoundARecord ==
  /\ net.search.kind = "ok"
  /\ Len(net.search.body.issues) > 0

\* C20 as stated: whenever the metadata step yields no identifier, the case
\* of a failed metadata query included, discovery makes the fallback probe of
\* an existing record before it reports not found.
C20_ProbeBeforeNotFound ==
  (InFs /\ pc = "done" /\ result = Returned(Null)) => net.probe # NotSent

\* C20 amended: whenever the metadata query is answered and the metadata step
\* yields no identifier, discovery goes on to the fallback search; when the
\* search returns at least one record it probes the first of them, and then
\* reports not found only after the probe has been answered or has failed.
\* It reports not found without a probe when the search fails or returns no
\* record, and without search or probe when the metadata query fails.
C20_FallbackAfterAnsweredMetadata ==
  InFs =>
    /\ MetadataGivesNothing => net.search # NotSent
    /\ SearchFoundARecord
         => /\ net.probe # NotSent
            /\ log[Len(log)] = Request("probe", 0, net.search.body.issues[1].key)
            /\ result = Returned(Null) => net.probe # Pending
    /\ (net.search # NotSent /\ ~SearchFoundARecord) => net.probe = NotSent
    /\ Failed(net.meta)
         => /\ net.search = NotSent
            /\ net.probe = NotSent
            /\ result = Returned(Null)
    /\ (net.search = NotSent /\ net.meta # Pending) => pc = "done"

\* The metadata held a field list without a matching name, the first record
\* found was probed, its field-name map accepted no shortlist identifier, and
\* only then was not found reported.
C20_Witness ==
  /\ InFs
  /\ MetadataGivesNothing
  /\ Len(MatchedFieldList(net.meta.body)) > 0
  /\ SearchFoundARecord
  /\ net.probe.kind = "ok"
  /\ result = Returned(Null)

(***************************************************************************)
(* getEpicChildren and the order of the answers.                           *)
(***************************************************************************)
\* The record getEpicChildren is claimed to give for a raw record of the
\* search and the answer to a comment request: the normalized record, with
\* the normalized comments of that answer and their mentions appended to its
\* relationship list.
RecordWithComments(issueData, commentsData) ==
  [cleanIssue(issueData)
     EXCEPT !.relatedIssues = MergedRelationships(issueData, commentsData)]
    @@ [comments |-> [j \in 1..Len(commentsData.comments) |->
                        cleanComment(commentsData.comments[j])]]

\* C21: what getEpicChildren returns is fixed by the answer to the search and
\* the answers to the comment requests, in whatever order the comment
\* requests are answered: the records are in the order of the search result,
\* and the comments and appended mentions of the record at each position are
\* those of the answer to the request issued for that record's own key.
C21_ResultIndependentOfCompletionOrder ==
  (InEc /\ result.kind = "value")
    => /\ Len(result.value) = Len(net.search.body.issues)
       /\ Len(order) = Len(result.value)
       /\ \A i \in 1..Len(result.value) :
            /\ result.value[i].key = net.search.body.issues[i].key
            /\ log[1 + i] = Request("comments", i, result.value[i].key)
            /\ result.value[i]
                 = RecordWithComments(net.search.body.issues[i], cnet[i].body)

\* The search returned B-2 and then C-3; the comment request of C-3 was
\* answered first, with two comments, that of B-2 afterwards, with none; the
\* result has B-2 without comments first and C-3 with its two comments second.
C21_Witness ==
  /\ InEc
  /\ result.kind = "value"
  /\ order = <<2, 1>>
  /\ Len(result.value) = 2
  /\ result.value[1].key = KeyB2
  /\ result.value[2].key = KeyC3
  /\ Len(result.value[1].comments) = 0
  /\ Len(result.value[2].comments) = 2

(***************************************************************************)
(* Further properties of cleanIssue.                                       *)
(***************************************************************************)
\* The structured links of the raw payload.
LinksInPayload ==
  IF InPayload("issuelinks") THEN arg.fields.issuelinks ELSE <<>>

\* The entry of the result made for the k-th structured link: the links'
\* entries are the last ones of the relationship list, in link order.
EntryOfLink(k) ==
  result.value.relatedIssues[Len(result.value.relatedIssues)
                               - Len(LinksInPayload) + k]

\* C22: for every structured link, the entry of kind "link" that cleanIssue
\* makes for it reports the inward linked record with the inward verb when
\* the link carries an inward record, and the outward linked record with the
\* outward verb when it carries only an outward record.
C22_VerbMatchesDirectionOfLinkedRecord ==
  InCleanIssue =>
    \A k \in 1..Len(LinksInPayload) :
      LET link == LinksInPayload[k]
      IN  /\ EntryOfLink(k).type = "link"
          /\ IF "inwardIssue" \in DOMAIN link
             THEN /\ EntryOfLink(k).key = link.inwardIssue.key
                  /\ EntryOfLink(k).relationship = link.type.inward
             ELSE /\ EntryOfLink(k).key = link.outwardIssue.key
                  /\ EntryOfLink(k).relationship = link.type.outward

=============================================================================
